---- MODULE Spec2Model ----
(***************************************************************************)
(* Model of src/src/navigation/search.py: the square-spiral search         *)
(* trajectory (SearchTrajectory) and the search behaviour state            *)
(* (SearchState.evaluate) of the rover's navigation state machine.         *)
(*                                                                         *)
(* An optional value (Optional[SearchTrajectory]) is a sequence of length  *)
(* 0 (None) or 1.  Coordinates are integers; a point is a tuple.           *)
(***************************************************************************)
EXTENDS Integers, Sequences, FiniteSets, TLC

VARIABLES
    traj,      \* SearchState.traj : Optional[SearchTrajectory]
    outcome,   \* what the last evaluate call returned or raised ("none" before the first)
    sent,      \* the drive commands the last evaluate call sent, in order
    cyc,       \* what the last evaluate call read and did (inputs, index queried, rebinding)
    arrivals,  \* arrivals reported by get_drive_command since the trajectory was built,
               \* counted up to ArrivalCap
    call       \* the last direct call of a SearchTrajectory method and its result

vars == <<traj, outcome, sent, cyc, arrivals, call>>

----------------------------------------------------------------------------
(* Bounds of the model. *)

\* rover positions are the points (x, 1 - x) for x in 0..MaxCoord
MaxCoord == 1
\* waypoint fiducial ids are NO_FIDUCIAL and 0..MaxFid
MaxFid == 1
\* spiral_traj called directly: num_turns in 1..MaxTurns
MaxTurns == 2
\* spiral_traj called directly: distance in 1..MaxDist
MaxDist == 2
\* direct increment_point calls are followed up to MaxOver steps past the end
MaxOver == 2

----------------------------------------------------------------------------
(* Program constants. *)

\* context.Environment.NO_FIDUCIAL, the "no marker" sentinel
NO_FIDUCIAL == -1
\* evaluate: the num_turns argument of spiral_traj
NumTurns == 5
\* evaluate: the distance argument of spiral_traj
Distance == 2

\* the number of points of the spiral evaluate builds
NumPoints == 4 * NumTurns + 1
\* the arrival count stops here
ArrivalCap == NumPoints + 1

Positions == {<<x, 1 - x>> : x \in 0..MaxCoord}
FidIds == {NO_FIDUCIAL} \cup (0..MaxFid)

----------------------------------------------------------------------------
(* SearchTrajectory *)

\* SearchTrajectory.dirs
dirs == << <<0, -1>>, <<-1, 0>>, <<0, 1>>, <<1, 0>> >>

\* np.tile(cls.dirs, (num_turns, 1)): the four directions repeated num_turns times
tile(num_turns) ==
    [i \in 1..(4 * num_turns) |-> dirs[((i - 1) % 4) + 1]]

\* dist_coefs with np.arange(0, num_turns * 2): 0, 0, d, d, 2d, 2d, ...
dist_coefs_from_zero(num_turns, distance) ==
    [i \in 1..(4 * num_turns) |-> distance * ((i - 1) \div 2)]

\* dist_coefs without the growing factor: every leg has length distance
dist_coefs_flat(num_turns, distance) ==
    [i \in 1..(4 * num_turns) |-> distance]

\* distance * np.repeat(np.arange(1, num_turns * 2 + 1), 2): d, d, 2d, 2d, 3d, 3d, ...
dist_coefs(num_turns, distance) ==
    [i \in 1..(4 * num_turns) |-> distance * (((i - 1) \div 2) + 1)]

\* deltas *= dist_coefs
scaled_deltas(num_turns, distance) ==
    LET deltas == tile(num_turns)
        coefs  == dist_coefs(num_turns, distance)
    IN [i \in 1..(4 * num_turns) |->
           << deltas[i][1] * coefs[i], deltas[i][2] * coefs[i] >>]

\* np.cumsum(rows, axis=0): row i is the sum of rows 1..i; done holds the sums of
\* the rows already passed
RECURSIVE cumsum_from(_, _)
cumsum_from(done, rest) ==
    IF Len(rest) = 0 THEN done
    ELSE LET row == Head(rest)
             acc == IF Len(done) = 0 THEN row
                    ELSE << done[Len(done)][1] + row[1], done[Len(done)][2] + row[2] >>
         IN cumsum_from(Append(done, acc), Tail(rest))

cumsum(rows) == cumsum_from(<<>>, rows)

\* np.hstack((coordinates, zeros column)): a zero z coordinate on every point
hstack_zeros(rows) ==
    [i \in 1..Len(rows) |-> << rows[i][1], rows[i][2], 0 >>]

\* spiral_traj with the origin stacked on the deltas in place of center
spiral_traj_from_origin(center, num_turns, distance, fid_id) ==
    [ coordinates |-> hstack_zeros(cumsum(<< <<0, 0>> >> \o scaled_deltas(num_turns, distance))),
      fid_id      |-> fid_id,
      cur_pt      |-> 0 ]

\* spiral_traj making at least one turn
spiral_traj_min_one_turn(center, num_turns, distance, fid_id) ==
    LET turns == IF num_turns < 1 THEN 1 ELSE num_turns
    IN [ coordinates |-> hstack_zeros(cumsum(<<center>> \o scaled_deltas(turns, distance))),
         fid_id      |-> fid_id,
         cur_pt      |-> 0 ]

\* SearchTrajectory.spiral_traj
spiral_traj(center, num_turns, distance, fid_id) ==
    [ coordinates |-> hstack_zeros(cumsum(<<center>> \o scaled_deltas(num_turns, distance))),
      fid_id      |-> fid_id,
      cur_pt      |-> 0 ]

\* coordinates[i] of a numpy array with n rows: negative indices count from the
\* end, anything outside -n..n-1 raises IndexError
IndexInRange(i, n) == -n <= i /\ i < n

\* SearchTrajectory.get_cur_pt with the index clamped to the last row: past the
\* end it returns the last point again
get_cur_pt_clamped(t) ==
    LET n == Len(t.coordinates)
    IN IF t.cur_pt < n /\ -n <= t.cur_pt
       THEN [ok |-> TRUE,
             pt |-> t.coordinates[(IF t.cur_pt < 0 THEN t.cur_pt + n ELSE t.cur_pt) + 1]]
       ELSE [ok |-> n > 0, pt |-> IF n > 0 THEN t.coordinates[n] ELSE <<>>]

\* SearchTrajectory.get_cur_pt: the point, or IndexError
get_cur_pt(t) ==
    LET n == Len(t.coordinates)
    IN IF IndexInRange(t.cur_pt, n)
       THEN [ok |-> TRUE,
             pt |-> t.coordinates[(IF t.cur_pt < 0 THEN t.cur_pt + n ELSE t.cur_pt) + 1]]
       ELSE [ok |-> FALSE, pt |-> <<>>]

\* SearchTrajectory.increment_point with > for >=: finished one arrival too late
increment_point_late(t) ==
    [ traj   |-> [t EXCEPT !.cur_pt = t.cur_pt + 1],
      ret    |-> (t.cur_pt + 1 > Len(t.coordinates)),
      raised |-> FALSE ]

\* SearchTrajectory.increment_point without the assignment to cur_pt
increment_point_stuck(t) ==
    [ traj   |-> t,
      ret    |-> (t.cur_pt >= Len(t.coordinates)),
      raised |-> FALSE ]

\* SearchTrajectory.increment_point dropping the point passed from coordinates
\* in place of moving the cursor
increment_point_pop(t) ==
    [ traj   |-> [t EXCEPT !.coordinates = Tail(t.coordinates)],
      ret    |-> (Len(t.coordinates) <= 1),
      raised |-> FALSE ]

\* SearchTrajectory.increment_point: the trajectory after the call, what the call
\* returns, and whether it raises (it has no check that could)
increment_point(t) ==
    [ traj   |-> [t EXCEPT !.cur_pt = t.cur_pt + 1],
      ret    |-> (t.cur_pt + 1 >= Len(t.coordinates)),
      raised |-> FALSE ]

----------------------------------------------------------------------------
(* SearchState *)

\* drive.get_drive_command: the command is determined by the target and the pose;
\* whether the rover has arrived is decided outside this module
get_drive_command(target_pos, pose, arrived) ==
    [cmd_vel |-> [target |-> target_pos, pose |-> pose], arrived |-> arrived]

\* evaluate, line 80: a new trajectory is needed
needs_traj(self_traj, fid) ==
    self_traj = <<>> \/ self_traj[1].fid_id # fid

\* evaluate, lines 81-86: the call SearchTrajectory.spiral_traj(position, 5, 2,
\* fiducial_id), worked out once for each position and fiducial id of the model
NewTrajs ==
    {[center |-> p, fid_id |-> f, traj |-> spiral_traj(p, NumTurns, Distance, f)] :
        p \in Positions, f \in FidIds}

new_traj(pos, fid) ==
    (CHOOSE e \in NewTrajs : e.center = pos /\ e.fid_id = fid).traj

\* evaluate, lines 80-86, building a trajectory only when there is none
bind_traj_once(self_traj, fid, pos) ==
    IF self_traj = <<>>
    THEN new_traj(pos, fid)
    ELSE self_traj[1]

\* evaluate, lines 80-86, with the cursor of the trajectory replaced carried over
\* to the new one
bind_traj_keep_cursor(self_traj, fid, pos) ==
    IF self_traj = <<>>
    THEN new_traj(pos, fid)
    ELSE IF self_traj[1].fid_id # fid
    THEN [new_traj(pos, fid) EXCEPT !.cur_pt = self_traj[1].cur_pt]
    ELSE self_traj[1]

\* evaluate, lines 80-86, with a position test added to line 80: a new trajectory
\* also when the one at hand is not centred on the rover
bind_traj_recentre(self_traj, fid, pos) ==
    IF \/ self_traj = <<>>
       \/ self_traj[1].fid_id # fid
       \/ self_traj[1].coordinates[1] # <<pos[1], pos[2], 0>>
    THEN new_traj(pos, fid)
    ELSE self_traj[1]

\* evaluate, lines 80-86: the trajectory to follow in this cycle
bind_traj(self_traj, fid, pos) ==
    IF needs_traj(self_traj, fid)
    THEN new_traj(pos, fid)
    ELSE self_traj[1]

\* evaluate, line 104, with "is None" for "is not None"
fiducial_seen_inverted(fid, vis) == fid # NO_FIDUCIAL /\ ~vis

\* evaluate, line 104: the fiducial of the waypoint is in sight
fiducial_seen(fid, vis) == fid # NO_FIDUCIAL /\ vis

\* what the cycle did to the controller's trajectory
binding(self_traj, fid) ==
    IF self_traj = <<>> THEN "first"
    ELSE IF self_traj[1].fid_id # fid THEN "replaced" ELSE "kept"

\* evaluate, lines 101-104: the collaborator calls of a cycle that goes past line
\* 99, in order; "and" at line 104 calls current_fid_pos only for a real fiducial id
calls_after_advance(fid) ==
    <<"send_drive_command">> \o
        (IF fid # NO_FIDUCIAL THEN <<"current_fid_pos">> ELSE <<>>)

\* evaluate with the fiducial check of line 104 moved before the arrival handling
\* of lines 96-99
evaluate_fid_first(self_traj, fid, pos, arrived, vis) ==
    LET t0     == bind_traj(self_traj, fid, pos)
        target == get_cur_pt(t0)
        drive  == get_drive_command(target.pt, pos, arrived)
        inc    == increment_point(t0)
    IN IF ~target.ok
       THEN [ traj |-> <<t0>>, outcome |-> "IndexError", sent |-> <<>>,
              queried |-> t0.cur_pt, driven |-> FALSE, arrived |-> FALSE,
              calls |-> <<>> ]
       ELSE IF fiducial_seen(fid, vis)
       THEN [ traj |-> IF drive.arrived THEN <<inc.traj>> ELSE <<t0>>,
              outcome |-> "single_fiducial", sent |-> <<drive.cmd_vel>>,
              queried |-> t0.cur_pt, driven |-> TRUE, arrived |-> drive.arrived,
              calls |-> <<"get_drive_command", "current_fid_pos", "send_drive_command">> ]
       ELSE IF drive.arrived /\ inc.ret
       THEN [ traj |-> <<inc.traj>>, outcome |-> "waypoint_traverse", sent |-> <<>>,
              queried |-> t0.cur_pt, driven |-> TRUE, arrived |-> TRUE,
              calls |-> <<"get_drive_command">> ]
       ELSE [ traj |-> IF drive.arrived THEN <<inc.traj>> ELSE <<t0>>,
              outcome |-> "search", sent |-> <<drive.cmd_vel>>,
              queried |-> t0.cur_pt, driven |-> TRUE, arrived |-> drive.arrived,
              calls |-> <<"get_drive_command">> \o calls_after_advance(fid) ]

\* evaluate without the test of line 96: the trajectory advances in every cycle
evaluate_advance_always(self_traj, fid, pos, arrived, vis) ==
    LET t0     == bind_traj(self_traj, fid, pos)
        target == get_cur_pt(t0)
        drive  == get_drive_command(target.pt, pos, arrived)
        inc    == increment_point(t0)
    IN IF ~target.ok
       THEN [ traj |-> <<t0>>, outcome |-> "IndexError", sent |-> <<>>,
              queried |-> t0.cur_pt, driven |-> FALSE, arrived |-> FALSE,
              calls |-> <<>> ]
       ELSE IF inc.ret
       THEN [ traj |-> <<inc.traj>>, outcome |-> "waypoint_traverse", sent |-> <<>>,
              queried |-> t0.cur_pt, driven |-> TRUE, arrived |-> drive.arrived,
              calls |-> <<"get_drive_command">> ]
       ELSE [ traj    |-> <<inc.traj>>,
              outcome |-> IF fiducial_seen(fid, vis) THEN "single_fiducial" ELSE "search",
              sent    |-> <<drive.cmd_vel>>,
              queried |-> t0.cur_pt, driven |-> TRUE, arrived |-> drive.arrived,
              calls |-> <<"get_drive_command">> \o calls_after_advance(fid) ]

\* evaluate with line 101 moved after the fiducial check of lines 103-105: a cycle
\* that returns single_fiducial has sent nothing
evaluate_send_last(self_traj, fid, pos, arrived, vis) ==
    LET t0     == bind_traj(self_traj, fid, pos)
        target == get_cur_pt(t0)
        drive  == get_drive_command(target.pt, pos, arrived)
        inc    == increment_point(t0)
    IN IF ~target.ok
       THEN [ traj |-> <<t0>>, outcome |-> "IndexError", sent |-> <<>>,
              queried |-> t0.cur_pt, driven |-> FALSE, arrived |-> FALSE,
              calls |-> <<>> ]
       ELSE IF drive.arrived /\ inc.ret
       THEN [ traj |-> <<inc.traj>>, outcome |-> "waypoint_traverse", sent |-> <<>>,
              queried |-> t0.cur_pt, driven |-> TRUE, arrived |-> TRUE,
              calls |-> <<"get_drive_command">> ]
       ELSE IF fiducial_seen(fid, vis)
       THEN [ traj |-> IF drive.arrived THEN <<inc.traj>> ELSE <<t0>>,
              outcome |-> "single_fiducial", sent |-> <<>>,
              queried |-> t0.cur_pt, driven |-> TRUE, arrived |-> drive.arrived,
              calls |-> <<"get_drive_command", "current_fid_pos">> ]
       ELSE [ traj |-> IF drive.arrived THEN <<inc.traj>> ELSE <<t0>>,
              outcome |-> "search", sent |-> <<drive.cmd_vel>>,
              queried |-> t0.cur_pt, driven |-> TRUE, arrived |-> drive.arrived,
              calls |-> <<"get_drive_command">>
                          \o (IF fid # NO_FIDUCIAL THEN <<"current_fid_pos">> ELSE <<>>)
                          \o <<"send_drive_command">> ]

\* SearchState.evaluate as a function of the controller's trajectory and of what
\* its collaborators return in this cycle: fid is current_waypoint().fiducial_id
\* (read at lines 79 and 103), pos is get_pose().position[0:2], arrived is
\* get_drive_command's flag and vis is "current_fid_pos() is not None".
\*   traj     self.traj when the call ends
\*   outcome  the label returned, or "IndexError" when line 89 raises
\*   sent     the commands passed to send_drive_command
\*   queried  the index get_cur_pt read at line 89
\*   driven   get_drive_command was called
\*   arrived  the flag it returned (FALSE when it was not called)
\*   calls    the calls of get_drive_command, send_drive_command and
\*            current_fid_pos the cycle made, in order
evaluate(self_traj, fid, pos, arrived, vis) ==
    LET t0     == bind_traj(self_traj, fid, pos)
        target == get_cur_pt(t0)
        drive  == get_drive_command(target.pt, pos, arrived)
        inc    == increment_point(t0)
    IN IF ~target.ok
       THEN [ traj |-> <<t0>>, outcome |-> "IndexError", sent |-> <<>>,
              queried |-> t0.cur_pt, driven |-> FALSE, arrived |-> FALSE,
              calls |-> <<>> ]
       ELSE IF drive.arrived /\ inc.ret
       THEN [ traj |-> <<inc.traj>>, outcome |-> "waypoint_traverse", sent |-> <<>>,
              queried |-> t0.cur_pt, driven |-> TRUE, arrived |-> TRUE,
              calls |-> <<"get_drive_command">> ]
       ELSE [ traj    |-> IF drive.arrived THEN <<inc.traj>> ELSE <<t0>>,
              outcome |-> IF fiducial_seen(fid, vis) THEN "single_fiducial" ELSE "search",
              sent    |-> <<drive.cmd_vel>>,
              queried |-> t0.cur_pt, driven |-> TRUE, arrived |-> drive.arrived,
              calls |-> <<"get_drive_command">> \o calls_after_advance(fid) ]

----------------------------------------------------------------------------
(* The controller driven by its host: one evaluate call per control cycle. *)

NoCycle == [ fid |-> NO_FIDUCIAL, pos |-> <<0, 0>>, vis |-> FALSE, arrived |-> FALSE,
             driven |-> FALSE, bound |-> "none", queried |-> -1, calls |-> <<>>,
             dropped |-> <<>>, back |-> FALSE ]
NoCall == [ op |-> "none", args |-> <<>>, pre |-> 0, raised |-> FALSE, ret |-> FALSE,
            pt |-> <<>> ]

\* SearchState.__init__
Init ==
    /\ traj = <<>>
    /\ outcome = "none"
    /\ sent = <<>>
    /\ cyc = NoCycle
    /\ arrivals = 0
    /\ call = NoCall

\* the arrival count after a cycle
count_arrivals(n, bound, arrived) ==
    LET base == IF bound = "kept" THEN n ELSE 0
        next == IF arrived THEN base + 1 ELSE base
    IN IF next > ArrivalCap THEN ArrivalCap ELSE next

\* the trajectory a cycle discards at lines 80-86, if it does: its fiducial id and
\* whether it had advanced
dropped_traj(self_traj, fid) ==
    IF binding(self_traj, fid) = "replaced"
    THEN <<[fid_id |-> self_traj[1].fid_id, progressed |-> self_traj[1].cur_pt > 0]>>
    ELSE <<>>

\* the waypoint is back at the fiducial id whose trajectory, already advanced, the
\* cycle before discarded
back_to_dropped(last, fid) ==
    /\ last.dropped # <<>>
    /\ last.dropped[1].progressed
    /\ last.dropped[1].fid_id = fid

\* one call of SearchState.evaluate by the host state machine
Evaluate(fid, pos, arrived, vis) ==
    \E r \in {evaluate(traj, fid, pos, arrived, vis)} :
       /\ traj' = r.traj
       /\ outcome' = r.outcome
       /\ sent' = r.sent
       /\ cyc' = [ fid |-> fid, pos |-> pos, vis |-> vis, arrived |-> r.arrived,
                   driven |-> r.driven, bound |-> binding(traj, fid),
                   queried |-> r.queried, calls |-> r.calls,
                   dropped |-> dropped_traj(traj, fid),
                   back |-> back_to_dropped(cyc, fid) ]
       /\ arrivals' = count_arrivals(arrivals, binding(traj, fid), r.arrived)
       /\ UNCHANGED call

\* a cycle in which get_drive_command reports that the rover has arrived
EvaluateArrived ==
    \E fid \in FidIds, pos \in Positions, vis \in BOOLEAN :
        Evaluate(fid, pos, TRUE, vis)

Next ==
    \E fid \in FidIds, pos \in Positions, arrived \in BOOLEAN, vis \in BOOLEAN :
        Evaluate(fid, pos, arrived, vis)

Spec == Init /\ [][Next]_vars

\* the host calls evaluate in every control cycle
FairSpec == Spec /\ WF_vars(Next)

\* the rover keeps arriving at the point it is sent to
ArrivalSpec == Spec /\ WF_vars(EvaluateArrived)

----------------------------------------------------------------------------
(* SearchTrajectory used on its own: built by spiral_traj, then read and      *)
(* advanced by direct calls.                                                 *)

TurnCounts == 1..MaxTurns
Distances == 1..MaxDist

InitTraj ==
    /\ \E center \in Positions, num_turns \in TurnCounts, distance \in Distances,
          fid_id \in FidIds :
          /\ traj = <<spiral_traj(center, num_turns, distance, fid_id)>>
          /\ call = [ op |-> "spiral_traj", args |-> <<center, num_turns, distance, fid_id>>,
                      pre |-> 0, raised |-> FALSE, ret |-> FALSE, pt |-> <<>> ]
    /\ outcome = "none"
    /\ sent = <<>>
    /\ cyc = NoCycle
    /\ arrivals = 0

\* a direct call of get_cur_pt
CallGetCurPt ==
    /\ traj # <<>>
    /\ \E r \in {get_cur_pt(traj[1])} :
          call' = [ op |-> "get_cur_pt", args |-> <<>>, pre |-> traj[1].cur_pt,
                    raised |-> ~r.ok, ret |-> FALSE, pt |-> r.pt ]
    /\ UNCHANGED <<traj, outcome, sent, cyc, arrivals>>

\* a direct call of increment_point
CallIncrementPoint ==
    /\ traj # <<>>
    /\ traj[1].cur_pt < Len(traj[1].coordinates) + MaxOver
    /\ \E r \in {increment_point(traj[1])} :
          /\ traj' = <<r.traj>>
          /\ call' = [ op |-> "increment_point", args |-> <<>>, pre |-> traj[1].cur_pt,
                       raised |-> r.raised, ret |-> r.ret, pt |-> <<>> ]
    /\ UNCHANGED <<outcome, sent, cyc, arrivals>>

NextTraj == CallGetCurPt \/ CallIncrementPoint

SpecTraj == InitTraj /\ [][NextTraj]_vars

----------------------------------------------------------------------------
(* spiral_traj called with any arguments, the degenerate ones included; the  *)
(* trajectory it returns is then read and advanced by direct calls.          *)

\* the rover positions and the origin
Centers == Positions \cup {<<0, 0>>}
\* num_turns: negative, zero and positive
GenTurns == -1..MaxTurns
\* distance: negative, zero and positive
GenDists == -1..MaxDist

\* spiral_traj, line 48: np.tile raises ValueError for a negative repetition
\* count; no other line checks an argument
spiral_traj_raises(num_turns) == num_turns < 0

\* the calls of spiral_traj of the model and what each returns, worked out once
GenTrajs ==
    {[args |-> <<c, n, d, f>>, traj |-> spiral_traj(c, n, d, f)] :
        c \in Centers, n \in GenTurns \ {-1}, d \in GenDists, f \in FidIds}

\* a call of the class method spiral_traj that returns a trajectory; the model
\* follows one trajectory from the call that builds it
CallSpiralTraj ==
    /\ traj = <<>>
    /\ \E e \in GenTrajs :
          /\ ~spiral_traj_raises(e.args[2])
          /\ traj' = <<e.traj>>
          /\ call' = [ op |-> "spiral_traj", args |-> e.args, pre |-> 0,
                       raised |-> FALSE, ret |-> FALSE, pt |-> <<>> ]
    /\ UNCHANGED <<outcome, sent, cyc, arrivals>>

\* a call of spiral_traj that raises: nothing is returned
CallSpiralTrajRaises ==
    /\ traj = <<>>
    /\ \E c \in Centers, n \in GenTurns, d \in GenDists, f \in FidIds :
          /\ spiral_traj_raises(n)
          /\ call' = [ op |-> "spiral_traj", args |-> <<c, n, d, f>>, pre |-> 0,
                       raised |-> TRUE, ret |-> FALSE, pt |-> <<>> ]
    /\ UNCHANGED <<traj, outcome, sent, cyc, arrivals>>

NextGen == CallSpiralTraj \/ CallSpiralTrajRaises \/ CallGetCurPt \/ CallIncrementPoint

SpecGen == Init /\ [][NextGen]_vars

----------------------------------------------------------------------------
(* Properties of the search state. *)

\* an evaluate call has been made
Ran == outcome # "none"
\* the last evaluate call found the waypoint's fiducial: a real id, and in sight
Found == cyc.fid # NO_FIDUCIAL /\ cyc.vis
\* the last evaluate call advanced the trajectory to its end
Exhausting ==
    cyc.driven /\ cyc.arrived /\ traj[1].cur_pt >= Len(traj[1].coordinates)

\* C1: no evaluate call reads the current point of an exhausted trajectory
\* (the index read at line 89 is never len(coordinates)).
C1_ExhaustedNeverQueried ==
    Ran => cyc.queried # Len(traj[1].coordinates)

\* C2: the cycle of the N-th arrival since the trajectory was built
\* (N = 4 * turns + 1) returns waypoint_traverse, no cycle with fewer arrivals
\* does, and that cycle sends no drive command.
C2_ResumeOnLastArrival ==
    (Ran /\ cyc.driven) =>
        /\ (cyc.arrived /\ arrivals = NumPoints) => outcome = "waypoint_traverse"
        /\ outcome = "waypoint_traverse" =>
              (cyc.arrived /\ arrivals = NumPoints /\ sent = <<>>)

\* C2 witness: the 21st arrival of a trajectory, the fiducial not in sight
C2_Witness ==
    /\ outcome = "waypoint_traverse"
    /\ arrivals = NumPoints
    /\ ~cyc.vis
    /\ sent = <<>>

\* C3: a cycle whose advance exhausts the trajectory returns waypoint_traverse
\* and sends nothing, also when the waypoint has a real fiducial id and the
\* fiducial is in sight; it never returns single_fiducial.
C3_ExhaustionBeforeFiducial ==
    (Ran /\ Exhausting) => (outcome = "waypoint_traverse" /\ sent = <<>>)

\* C3 witness: exhaustion in a cycle in which the fiducial is in sight
C3_Witness ==
    Ran /\ Exhausting /\ Found /\ outcome = "waypoint_traverse"

\* C4: a cycle that reaches get_drive_command and does not exhaust the
\* trajectory returns single_fiducial whenever the waypoint has a real fiducial
\* id and the fiducial is in sight, arrived or not.
C4_FiducialBeforeSearch ==
    (Ran /\ cyc.driven /\ ~Exhausting /\ Found) => outcome = "single_fiducial"

\* C4 witness: the fiducial is found in a cycle without arrival
C4_Witness ==
    Ran /\ cyc.driven /\ ~cyc.arrived /\ Found /\ outcome = "single_fiducial"

\* C5: with the NO_FIDUCIAL waypoint every evaluate call ends with search or
\* waypoint_traverse.
C5_SentinelOutcome ==
    (Ran /\ cyc.fid = NO_FIDUCIAL) => outcome \in {"search", "waypoint_traverse"}

\* C6: a cycle that replaces the trajectory (its fiducial id differs from the
\* waypoint's) leaves a trajectory for the waypoint's id whose point 0 is the
\* rover's position and whose cursor is 0.
C6_ReplacedCursorZero ==
    (Ran /\ cyc.bound = "replaced") =>
        /\ traj[1].fid_id = cyc.fid
        /\ traj[1].coordinates[1] = <<cyc.pos[1], cyc.pos[2], 0>>
        /\ traj[1].cur_pt = 0

\* C6 amended: a cycle that replaces the trajectory leaves a trajectory for the
\* waypoint's id whose point 0 is the rover's position; the point it reads is
\* point 0, and its cursor at the end of the cycle is 1 if the rover arrived
\* in that cycle and 0 if not.
C6_ReplacedFromStart ==
    (Ran /\ cyc.bound = "replaced") =>
        /\ traj[1].fid_id = cyc.fid
        /\ traj[1].coordinates[1] = <<cyc.pos[1], cyc.pos[2], 0>>
        /\ Len(traj[1].coordinates) = NumPoints
        /\ cyc.queried = 0
        /\ traj[1].cur_pt = (IF cyc.arrived THEN 1 ELSE 0)

\* C6 witness: a trajectory with progress was replaced in a cycle with arrival
C6_Witness ==
    /\ Ran /\ cyc.bound = "replaced" /\ cyc.arrived
    /\ traj[1].cur_pt = 1
    /\ traj[1].coordinates[1] = <<cyc.pos[1], cyc.pos[2], 0>>

\* C7: a search (the cycles for one waypoint fiducial id) in which the rover
\* never arrives and the fiducial is never found has a cycle that returns
\* waypoint_traverse.
C7_NoArrivalResumes ==
    \A f \in FidIds :
        [](~cyc.arrived /\ ~Found /\ (Ran => cyc.fid = f))
            => <>(outcome = "waypoint_traverse")

\* C7 amended: while the rover has not arrived and the fiducial is not found,
\* every cycle returns search and sends its drive command: the search goes on,
\* and waypoint_traverse is returned only in a cycle with arrival.
C7_NoArrivalContinues ==
    /\ (Ran /\ arrivals = 0 /\ ~Found) => (outcome = "search" /\ Len(sent) = 1)
    /\ outcome = "waypoint_traverse" => cyc.arrived

\* C7 witness: a cycle after others without arrival, fiducial not found
C7_Witness ==
    /\ Ran /\ arrivals = 0 /\ ~Found /\ cyc.bound = "kept"
    /\ outcome = "search"

\* C8: with an unchanging waypoint fiducial id and the rover arriving again and
\* again, some cycle returns waypoint_traverse or single_fiducial; no trajectory
\* sees more than 4 * turns + 1 arrivals, and the cycles from the last arrival on
\* do not return search.
C8_SearchBounded ==
    /\ \A f \in FidIds :
          [](Ran => cyc.fid = f) => <>(outcome \in {"waypoint_traverse", "single_fiducial"})
    /\ [](arrivals <= NumPoints)
    /\ []((Ran /\ arrivals = NumPoints) => outcome # "search")

\* C8 witness: the search ended by exhaustion on a kept trajectory
C8_Witness ==
    /\ cyc.bound = "kept" /\ cyc.arrived
    /\ arrivals = NumPoints
    /\ outcome = "waypoint_traverse"

\* C9: the cursor of the controller's trajectory stays within
\* 0..len(coordinates).
C9_CursorInRange ==
    traj # <<>> => (0 <= traj[1].cur_pt /\ traj[1].cur_pt <= Len(traj[1].coordinates))

\* C9 witness: the cursor at len(coordinates)
C9_Witness ==
    traj # <<>> /\ traj[1].cur_pt = Len(traj[1].coordinates)

\* C10: increment_point called on an exhausted trajectory raises and leaves the
\* cursor at most len(coordinates).
C10_AdvanceExhaustedRaises ==
    (call.op = "increment_point" /\ call.pre = Len(traj[1].coordinates)) =>
        (call.raised /\ traj[1].cur_pt <= Len(traj[1].coordinates))

\* C11: while the trajectory is kept (no rebinding) the cursor never decreases: a
\* cycle leaves cur_pt unchanged when the rover did not arrive and adds exactly 1
\* when it arrived, and increment_point returned True (evaluate returns
\* waypoint_traverse at line 99) exactly when the new cur_pt >= len(coordinates).
C11_CursorStep ==
    [][ cyc'.bound = "kept" =>
          /\ traj'[1].cur_pt >= traj[1].cur_pt
          /\ traj'[1].cur_pt = traj[1].cur_pt + (IF cyc'.arrived THEN 1 ELSE 0)
          /\ cyc'.arrived =>
                ((outcome' = "waypoint_traverse")
                    <=> (traj'[1].cur_pt >= Len(traj'[1].coordinates)))
          /\ ~cyc'.arrived => outcome' # "waypoint_traverse"
      ]_vars

\* a kept trajectory is advanced to its end by an arrival
C11_Witness ==
    /\ cyc.bound = "kept"
    /\ cyc.arrived
    /\ outcome = "waypoint_traverse"
    /\ traj[1].cur_pt = cyc.queried + 1
    /\ traj[1].cur_pt = Len(traj[1].coordinates)

----------------------------------------------------------------------------
(* Properties of spiral_traj. *)

\* the last call was spiral_traj and it returned the trajectory in traj
Built == call.op = "spiral_traj" /\ ~call.raised
\* the arguments of that call
center_arg == call.args[1]
turns_arg == call.args[2]
distance_arg == call.args[3]
fid_arg == call.args[4]
\* the arguments the spiral is meant for
Regular == turns_arg >= 1 /\ distance_arg > 0
\* the x and y of the point with 0-based index i
planar(i) == << traj[1].coordinates[i + 1][1], traj[1].coordinates[i + 1][2] >>

\* C12: for num_turns >= 1 and distance > 0, spiral_traj returns exactly
\* 4 * num_turns + 1 points, point 0 is center, fid_id is the id given and
\* cur_pt is 0.
C12_SpiralShape ==
    (Built /\ Regular) =>
        /\ Len(traj[1].coordinates) = 4 * turns_arg + 1
        /\ traj[1].coordinates[1] = << center_arg[1], center_arg[2], 0 >>
        /\ traj[1].fid_id = fid_arg
        /\ traj[1].cur_pt = 0

\* the longest spiral of the model, around a center that is not the origin
C12_Witness ==
    /\ Built
    /\ turns_arg = MaxTurns /\ distance_arg > 0
    /\ center_arg # <<0, 0>>
    /\ fid_arg # NO_FIDUCIAL
    /\ Len(traj[1].coordinates) = 4 * MaxTurns + 1

\* C13: for num_turns >= 1 and distance > 0, the step from point i to point i + 1
\* (0 <= i < 4 * num_turns) is direction i mod 4 of (0,-1), (-1,0), (0,1), (1,0)
\* times distance * (floor(i / 2) + 1); for center (0,0), 1 turn and distance 2
\* the points are (0,0), (0,-2), (-2,-2), (-2,2), (2,2).
C13_SpiralSteps ==
    (Built /\ Regular) =>
        /\ \A i \in 0..(4 * turns_arg - 1) :
              LET dir == << <<0, -1>>, <<-1, 0>>, <<0, 1>>, <<1, 0>> >>[(i % 4) + 1]
                  mag == distance_arg * ((i \div 2) + 1)
              IN /\ planar(i + 1)[1] - planar(i)[1] = dir[1] * mag
                 /\ planar(i + 1)[2] - planar(i)[2] = dir[2] * mag
        /\ (center_arg = <<0, 0>> /\ turns_arg = 1 /\ distance_arg = 2) =>
              [i \in 1..5 |-> planar(i - 1)]
                 = << <<0, 0>>, <<0, -2>>, <<-2, -2>>, <<-2, 2>>, <<2, 2>> >>

\* the spiral of the example: center (0,0), one turn, distance 2
C13_Witness ==
    /\ Built
    /\ center_arg = <<0, 0>> /\ turns_arg = 1 /\ distance_arg = 2
    /\ planar(4) = <<2, 2>>

\* C14: for num_turns >= 1 and distance > 0 the points spiral_traj returns are
\* pairwise distinct: the spiral never comes back to a point.
C14_NoRevisit ==
    (Built /\ Regular) =>
        \A i, j \in 1..Len(traj[1].coordinates) :
            i # j => traj[1].coordinates[i] # traj[1].coordinates[j]

\* a spiral of more than one turn: two corners a full turn apart lie on one diagonal
C14_Witness ==
    /\ Built /\ Regular
    /\ turns_arg >= 2
    /\ distance_arg = 1
    /\ \E i, j \in 1..Len(traj[1].coordinates) :
          /\ i + 4 = j
          /\ traj[1].coordinates[i][1] - traj[1].coordinates[i][2]
                = traj[1].coordinates[j][1] - traj[1].coordinates[j][2]

\* the arguments spiral_traj is not meant for: no turn, or a distance that is
\* not positive
Degenerate == turns_arg = 0 \/ distance_arg <= 0

\* C15 as stated: a call of spiral_traj with num_turns = 0 or distance <= 0 is
\* rejected: it raises and yields no trajectory.
C15_DegenerateRejected ==
    (call.op = "spiral_traj" /\ Degenerate) => call.raised

\* C15: a call of spiral_traj with num_turns = 0, or with num_turns >= 0 and
\* distance <= 0, is not rejected: it returns a trajectory of 4 * num_turns + 1
\* points that starts at center; a single point for num_turns = 0, every point
\* equal to center for distance = 0, and for distance < 0 the spiral of
\* -distance mirrored through center.
C15_DegenerateYieldsTrajectory ==
    (call.op = "spiral_traj" /\ turns_arg >= 0 /\ Degenerate) =>
        /\ ~call.raised
        /\ traj # <<>>
        /\ traj[1].fid_id = fid_arg /\ traj[1].cur_pt = 0
        /\ Len(traj[1].coordinates) = 4 * turns_arg + 1
        /\ planar(0) = center_arg
        /\ turns_arg = 0 => Len(traj[1].coordinates) = 1
        /\ distance_arg = 0 =>
              \A i \in 0..(4 * turns_arg) : planar(i) = center_arg
        /\ distance_arg < 0 =>
              LET mirror == spiral_traj(center_arg, turns_arg, -distance_arg, fid_arg)
              IN \A i \in 0..(4 * turns_arg) :
                    /\ planar(i)[1] = 2 * center_arg[1] - mirror.coordinates[i + 1][1]
                    /\ planar(i)[2] = 2 * center_arg[2] - mirror.coordinates[i + 1][2]

\* spiral_traj has returned the single-point trajectory of zero turns
C15_Witness ==
    /\ Built
    /\ turns_arg = 0 /\ distance_arg > 0
    /\ traj[1].coordinates = << <<center_arg[1], center_arg[2], 0>> >>

----------------------------------------------------------------------------
(* Properties of the search state, continued. *)

\* C16: a replaced trajectory is never resumed: when the cycles for fiducial id
\* A have advanced the cursor past 0, then a cycle for B # A replaces the
\* trajectory, and the next cycle is for A again, that cycle builds a new
\* trajectory for A around its own rover position and reads point 0 of it; the
\* progress made for A before is gone.
C16_NeverResumed ==
    cyc.back =>
        /\ cyc.bound = "replaced"
        /\ cyc.dropped # <<>> /\ cyc.dropped[1].fid_id # cyc.fid
        /\ traj[1].fid_id = cyc.fid
        /\ traj[1].coordinates = new_traj(cyc.pos, cyc.fid).coordinates
        /\ traj[1].coordinates[1] = <<cyc.pos[1], cyc.pos[2], 0>>
        /\ cyc.queried = 0
        /\ traj[1].cur_pt = (IF cyc.arrived THEN 1 ELSE 0)

\* the waypoint went from A to B and back to A, and the rover did not arrive in
\* the cycle that came back
C16_Witness ==
    /\ cyc.back /\ ~cyc.arrived
    /\ cyc.fid # NO_FIDUCIAL
    /\ traj[1].fid_id = cyc.fid
    /\ traj[1].cur_pt = 0
    /\ outcome = "search"

\* the 1-based places of a call in the calls of the last cycle
places(name) == {i \in 1..Len(cyc.calls) : cyc.calls[i] = name}

\* C17: a cycle that returns search or single_fiducial sends exactly one drive
\* command, the one get_drive_command worked out in this cycle for the point read
\* before any advance, and sends it before current_fid_pos is asked; a cycle that
\* returns waypoint_traverse sends none.
C17_OneCommandBeforeCheck ==
    /\ outcome \in {"search", "single_fiducial"} =>
          /\ Len(sent) = 1
          /\ sent[1] = get_drive_command(traj[1].coordinates[cyc.queried + 1],
                                         cyc.pos, cyc.arrived).cmd_vel
          /\ Cardinality(places("send_drive_command")) = 1
          /\ \A i \in places("send_drive_command") :
                /\ \A j \in places("get_drive_command") : j < i
                /\ \A j \in places("current_fid_pos") : i < j
    /\ outcome = "single_fiducial" => places("current_fid_pos") # {}
    /\ outcome = "waypoint_traverse" =>
          /\ sent = <<>>
          /\ places("send_drive_command") = {}

\* the fiducial is found in a cycle in which the rover arrived and the cursor
\* moved on: the command sent is for the point read before the advance
C17_Witness ==
    /\ outcome = "single_fiducial"
    /\ cyc.arrived /\ traj[1].cur_pt = cyc.queried + 1
    /\ cyc.calls = <<"get_drive_command", "send_drive_command", "current_fid_pos">>
    /\ sent = << [target |-> traj[1].coordinates[cyc.queried + 1], pose |-> cyc.pos] >>

\* C18: a cycle that finds a trajectory whose fid_id is the waypoint's fiducial id
\* (no rebinding) leaves coordinates and fid_id of that trajectory as they were;
\* of its fields only cur_pt may change.
C18_KeptFrame ==
    [][ (traj # <<>> /\ traj[1].fid_id = cyc'.fid) =>
          /\ Len(traj') = 1
          /\ traj'[1].coordinates = traj[1].coordinates
          /\ traj'[1].fid_id = traj[1].fid_id
          /\ traj' = <<[traj[1] EXCEPT !.cur_pt = traj'[1].cur_pt]>>
      ]_vars

\* a kept trajectory, already advanced, is advanced again
C18_Witness ==
    /\ cyc.bound = "kept" /\ cyc.arrived
    /\ cyc.queried >= 1
    /\ traj[1].cur_pt = cyc.queried + 1
    /\ Len(traj[1].coordinates) = NumPoints
    /\ outcome = "search"

====
